---------------------------- MODULE Spec2Model ----------------------------
(***************************************************************************)
(* A model of the Lvi client (src/lvi/__init__.py): the session set by     *)
(* connect, the request executor with its retry and local-clock expiry     *)
(* paths, the room and heater registries filled by update_rooms and        *)
(* update_heaters, and the two throttled refresh operations.               *)
(*                                                                         *)
(* The client is a single flow of control whose suspension points are the  *)
(* awaited network posts.  `stack` holds the frames of the coroutines that *)
(* are suspended (the innermost last); the innermost one waits for the     *)
(* answer to a post.  A step is a public call, or the answer to the post   *)
(* awaited, each run up to the next post or to the end of the public call. *)
(* An empty stack is a client at rest, and `ret` is then what the last     *)
(* public call returned.                                                   *)
(***************************************************************************)
EXTENDS Integers, Sequences, FiniteSets, TLC

\* ------------------------------------------------------------------ bounds
MaxTime  == 3       \* the clock runs from 0 to MaxTime
MaxRetry == 2       \* retry budgets a caller passes explicitly: 0..MaxRetry
MaxList  == 2       \* longest zone or device list the service returns
MaxCelsius == 40    \* the codec is applied to the integers -MaxCelsius..MaxAdc
MaxAdc   == 800

\* ------------------------------------------------------- program constants
MIN_TIME_BETWEEN_UPDATES == 2           \* seconds
CONNECT_DEFAULT_RETRY    == 2           \* def connect(self, retry=2)
REQUEST_DEFAULT_RETRY    == 3           \* def request(self, ..., retry=3)

\* ---------------------------------------------------------- Python values
NoneT    == "None"                      \* None, where the other values are strings
NoExpire == -1                          \* None, for _token_expire (else a time)
NoTime   == -1                          \* None, for the throttle timestamps
NoPower  == -1                          \* None, for the power_status argument

VNone      == [t |-> "None"]
VFalse     == [t |-> "False"]
VTrue      == [t |-> "True"]
VCoroutine == [t |-> "coroutine"]       \* a coroutine object nobody awaited
VEmptyList == [t |-> "list"]            \* []
VData(p)   == [t |-> "data", p |-> p]   \* a decoded JSON body
VRaise(e)  == [t |-> "raise", e |-> e]  \* the call ended in an exception
VHomes(h)  == [t |-> "homes", smarthome_id |-> h]   \* {'0': {'smarthome_id': h}}
VHeater(h) == [t |-> "heater", h |-> h] \* a Heater of the registry
NoRet      == [t |-> "pending"]         \* no value is being returned
EmptyDict  == [k \in {} |-> NoneT]      \* {}

\* -------------------------------------------------------------- the world
Username == "user@example"
Tokens   == {"t1", "t2"}
Users    == {"u1"}
Expiries == {1, MaxTime + 1}            \* expiry times the service hands out
Retries  == 0..MaxRetry

VARIABLES
    token, user_id, token_expire,       \* self._token, _user_id, _token_expire
    now,                                \* datetime.now(), in seconds
    rooms, heaters,                     \* self.rooms, self.heaters
    throttle_time, throttle_all_time,   \* self._throttle_time, _throttle_all_time
    stack, ret,                         \* the suspended coroutines, the value in flight
    call,                               \* history: the public call in progress or last made
    pre,                                \* history: the session when that call was made
    rq,                                 \* history: the posts of the current request() call
    prev,                               \* history: how the previous request() call ended
    thr,                                \* history: the last calls of each throttled operation
    codec                               \* a conversion applied on its own: its argument and result

session == <<token, user_id, token_expire>>
vars == <<token, user_id, token_expire, now, rooms, heaters,
          throttle_time, throttle_all_time, stack, ret, call, pre, rq, prev, thr,
          codec>>

Idle == stack = <<>>
Top  == stack[Len(stack)]
Pop(stk) == SubSeq(stk, 1, Len(stk) - 1)
Last(stk) == stk[Len(stk)]

\* The client as one record m: the operations below take it and give the
\* client they leave.
Client ==
    [token |-> token, user_id |-> user_id, token_expire |-> token_expire,
     rooms |-> rooms, heaters |-> heaters,
     throttle_time |-> throttle_time, throttle_all_time |-> throttle_all_time,
     stack |-> stack, ret |-> ret, rq |-> rq, thr |-> thr]

Becomes(m) ==
    /\ token' = m.token /\ user_id' = m.user_id /\ token_expire' = m.token_expire
    /\ rooms' = m.rooms /\ heaters' = m.heaters
    /\ throttle_time' = m.throttle_time /\ throttle_all_time' = m.throttle_all_time
    /\ stack' = m.stack /\ ret' = m.ret /\ rq' = m.rq /\ thr' = m.thr

\* The posts of one request() call: command posts made, how many of them
\* timed out, authentication posts made, and the last answer to each kind.
RqInit == [attempts |-> 0, timeouts |-> 0, auths |-> 0, last |-> "none", auth |-> "none"]


\* ------------------------------------------------- what the service answers
\* The answer to the authentication post (lines 65-96): the post times out or
\* fails at connection level, or a body arrives that is not JSON, or a JSON
\* body with or without its code, data, token, user_infos, user_id and
\* token_expire members.
AuthAnswer(kind, code, hasData, tok, hasInfos, uid, exp) ==
    [kind |-> kind, code |-> code, hasData |-> hasData, token |-> tok,
     hasInfos |-> hasInfos, user_id |-> uid, token_expire |-> exp]

AuthCodes == {NoneT, "1", "3"}

AuthAnswers ==
    {AuthAnswer(k, NoneT, FALSE, NoneT, FALSE, NoneT, NoExpire) :
        k \in {"timeout", "clienterror", "badjson"}}
    \cup {AuthAnswer("json", c, FALSE, NoneT, FALSE, NoneT, NoExpire) : c \in AuthCodes}
    \cup {AuthAnswer("json", c, TRUE, tk, FALSE, NoneT, NoExpire) :
            c \in AuthCodes, tk \in Tokens \cup {NoneT}}
    \cup {AuthAnswer("json", c, TRUE, tk, TRUE, u, e) :
            c \in AuthCodes, tk \in Tokens \cup {NoneT},
            u \in Users \cup {NoneT}, e \in Expiries \cup {NoExpire}}

\* The answer to a command post (lines 142-165): a transport failure, an empty
\* body, a body that is not JSON, or a JSON body with its code and payload p.
CmdAnswer(kind, code, p) == [kind |-> kind, code |-> code, p |-> p]
CmdCodes == {NoneT, "1", "8", "3"}
NoPayload == [none |-> TRUE]

\* How the answer to a command post is recorded in rq.last.
AnswerName(r) ==
    IF r.kind # "json" THEN r.kind
    ELSE IF r.code = NoneT THEN "nocode"
    ELSE IF r.code \in {"1", "8"} THEN "ok"
    ELSE "rejected"

\* How the answer to the authentication post is recorded in rq.auth.
AuthName(r) ==
    IF r.kind # "json" THEN r.kind
    ELSE IF r.code = NoneT THEN "nocode"
    ELSE IF r.code = "3" THEN "authfail"
    ELSE IF ~r.hasData THEN "nodata"
    ELSE IF r.token = NoneT THEN "notoken"
    ELSE IF ~r.hasInfos THEN "noinfos"
    ELSE IF r.user_id = NoneT THEN "nouser"
    ELSE IF r.token_expire = NoExpire THEN "noexpiry"
    ELSE "ok"

\* ------------------------------------------------------- frames and returns
ConnectFrame(retry) == [fn |-> "connect", pc |-> "post", retry |-> retry]
RequestFrame(pc, command, formData, retry) ==
    [fn |-> "request", pc |-> pc, command |-> command,
     formData |-> formData, retry |-> retry]
Frame(fn, pc) == [fn |-> fn, pc |-> pc]
HeatersFrame(pc, home, heater_data) ==
    [fn |-> "update_heaters", pc |-> pc, smarthome_id |-> home,
     heater_data |-> heater_data]
DeviceFrame(device_id) == [fn |-> "update_device", pc |-> "throttle", device_id |-> device_id]

Push(m, frame) == [m EXCEPT !.stack = Append(@, frame)]
\* return v: the frame is dropped and its caller (or the public caller) gets v.
Return(m, v) == [m EXCEPT !.stack = Pop(@), !.ret = v]
\* No frame of the client catches an exception outside the two posts: every
\* suspended coroutine is unwound and the public call ends in the exception.
Raise(m, e) == [m EXCEPT !.stack = <<>>, !.ret = VRaise(e)]
\* A frame is suspended on a post.
Await(m, frame) == [m EXCEPT !.stack = Append(@, frame), !.ret = NoRet]

\* --------------------------------------------------- connect and request
\* Faulty variant of RetryExhausted: the budget counts attempts, not retries.
RetryExhaustedEarly(retry) == retry < 2

\* if retry < 1 (lines 71 and 148): the budget is used up.
RetryExhausted(retry) == retry < 1

\* connect(retry) up to its post (lines 52-69).
EnterConnect(m, retry) ==
    Await([m EXCEPT !.rq.auths = @ + 1], ConnectFrame(retry))

\* The fields request() appends to the caller's form (lines 135-136).
Credentials(m) == << <<"token", m.token>>, <<"email", Username>> >>

\* The local-clock check of line 128: strptime(expire) <= now().
TokenExpired(expire, t) == expire <= t

\* Faulty variant of EnterRequest: the check of line 123 is missing.
EnterRequestUnchecked(m, command, formData, retry) ==
    IF m.token_expire = NoExpire
      THEN Raise(m, "TypeError")
    ELSE IF TokenExpired(m.token_expire, now)
      THEN EnterConnect(Push(m, RequestFrame("connect", command, formData, retry)),
                        CONNECT_DEFAULT_RETRY)
    ELSE Await([m EXCEPT !.rq.attempts = @ + 1],
               RequestFrame("post", command, formData \o Credentials(m), retry))

\* request(command, formData, retry) up to its first await (lines 119-146).
\* The call made at line 129 is connect(): the default budget.
EnterRequest(m, command, formData, retry) ==
    IF m.token = NoneT
      THEN [m EXCEPT !.ret = VNone]
    ELSE IF m.token_expire = NoExpire
      THEN Raise(m, "TypeError")
    ELSE IF TokenExpired(m.token_expire, now)
      THEN EnterConnect(Push(m, RequestFrame("connect", command, formData, retry)),
                        CONNECT_DEFAULT_RETRY)
    ELSE Await([m EXCEPT !.rq.attempts = @ + 1],
               RequestFrame("post", command, formData \o Credentials(m), retry))

\* A request() made by another coroutine or by the public caller (not the
\* retry of line 151): its posts are counted from zero.
CallRequest(m, command, formData, retry) ==
    EnterRequest([m EXCEPT !.rq = RqInit], command, formData, retry)

\* Faulty variant of ConnectResult: each session field is stored as soon as
\* it is read, not together at lines 98-100.
ConnectResultEager(m, r) ==
    LET mt == [m  EXCEPT !.token = r.token]
        mu == [mt EXCEPT !.user_id = r.user_id]
    IN  IF r.kind = "badjson" THEN Raise(m, "JSONDecodeError")
        ELSE IF r.code = NoneT THEN Raise(m, "AttributeError")
        ELSE IF r.code = "3" THEN Return(m, VFalse)
        ELSE IF ~r.hasData THEN Raise(m, "AttributeError")
        ELSE IF r.token = NoneT THEN Return(m, VFalse)
        ELSE IF ~r.hasInfos THEN Raise(mt, "AttributeError")
        ELSE IF r.user_id = NoneT THEN Return(mt, VFalse)
        ELSE IF r.token_expire = NoExpire THEN Return(mu, VFalse)
        ELSE Return([mu EXCEPT !.token_expire = r.token_expire], VTrue)

\* What connect() makes of a body (lines 76-101).
ConnectResult(m, r) ==
    IF r.kind = "badjson" THEN Raise(m, "JSONDecodeError")
    ELSE IF r.code = NoneT THEN Raise(m, "AttributeError")
    ELSE IF r.code = "3" THEN Return(m, VFalse)
    ELSE IF ~r.hasData THEN Raise(m, "AttributeError")
    ELSE IF r.token = NoneT THEN Return(m, VFalse)
    ELSE IF ~r.hasInfos THEN Raise(m, "AttributeError")
    ELSE IF r.user_id = NoneT THEN Return(m, VFalse)
    ELSE IF r.token_expire = NoExpire THEN Return(m, VFalse)
    ELSE Return([m EXCEPT !.token = r.token, !.user_id = r.user_id,
                          !.token_expire = r.token_expire], VTrue)

\* connect() once its post is answered (lines 70-101).
ConnectAnswered(m, r) ==
    LET f  == Last(m.stack)
        m1 == [m EXCEPT !.rq.auth = AuthName(r)]
    IN  IF r.kind \in {"timeout", "clienterror"}
          THEN IF RetryExhausted(f.retry)
                 THEN Return(m1, VFalse)
                 ELSE EnterConnect([m1 EXCEPT !.stack = Pop(@)], f.retry - 1)
          ELSE ConnectResult(m1, r)

\* Faulty variant of RequestResult: code '3' passes the check of line 165.
RequestResultLenient(r) ==
    IF r.kind = "empty" THEN VNone
    ELSE IF r.kind = "badjson" THEN VRaise("JSONDecodeError")
    ELSE IF r.code = NoneT THEN VRaise("AttributeError")
    ELSE IF r.code # "1" /\ r.code # "8" /\ r.code # "3" THEN VFalse
    ELSE VData(r.p)

\* What request() makes of a body (lines 157-169).
RequestResult(r) ==
    IF r.kind = "empty" THEN VNone
    ELSE IF r.kind = "badjson" THEN VRaise("JSONDecodeError")
    ELSE IF r.code = NoneT THEN VRaise("AttributeError")
    ELSE IF r.code # "1" /\ r.code # "8" THEN VFalse
    ELSE VData(r.p)

\* Faulty variant of RequestAnswered: the retry of line 151 passes its own
\* budget on instead of retry - 1.
RequestAnsweredSameBudget(m, r) ==
    LET f  == Last(m.stack)
        m1 == [m EXCEPT !.rq.last = AnswerName(r),
                        !.rq.timeouts = IF r.kind = "timeout" THEN @ + 1 ELSE @]
        v  == RequestResult(r)
    IN  IF r.kind = "timeout"
          THEN EnterRequest([m1 EXCEPT !.stack = Pop(@)], f.command,
                            f.formData, f.retry)
        ELSE IF r.kind = "clienterror" THEN Return(m1, VNone)
        ELSE IF v.t = "raise" THEN Raise(m1, v.e)
        ELSE Return(m1, v)

\* request() once its post is answered (lines 147-169).  The retry of line
\* 151 passes on the form it has already appended to.
RequestAnswered(m, r) ==
    LET f  == Last(m.stack)
        m1 == [m EXCEPT !.rq.last = AnswerName(r),
                        !.rq.timeouts = IF r.kind = "timeout" THEN @ + 1 ELSE @]
        v  == RequestResult(r)
    IN  IF r.kind = "timeout"
          THEN IF RetryExhausted(f.retry)
                 THEN Return(m1, VNone)
                 ELSE EnterRequest([m1 EXCEPT !.stack = Pop(@)], f.command,
                                   f.formData, f.retry - 1)
        ELSE IF r.kind = "clienterror" THEN Return(m1, VNone)
        ELSE IF v.t = "raise" THEN Raise(m1, v.e)
        ELSE Return(m1, v)

\* connect() has returned to line 129 (lines 129-131).  Line 131 returns the
\* coroutine object of the re-issued call without awaiting it.
RequestConnected(m) ==
    IF m.ret = VTrue THEN Return(m, VCoroutine) ELSE Return(m, VNone)

\* ------------------------------------------------------------ the registries
Devices  == {"d1", "d2"}
HomeId   == "h1"

\* int(adc) of the numerals the service sends (lines 433-436).
ParseInt(str) ==
    CASE str = "0" -> 0     [] str = "446" -> 446 [] str = "500" -> 500
      [] str = "590" -> 590 [] str = "626" -> 626 [] str = "680" -> 680
      [] str = "770" -> 770

\* adcToCelsius (lines 432-436), on the integer int(adc).
adcToCelsius(adc) ==
    IF adc < 410 THEN adc ELSE (adc - 410) \div 18 + 5

\* celsiusToAdc (lines 428-429).
celsiusToAdc(celsius) == 410 + (celsius - 5) * 18

\* One entry of data.devices, and one of data.zones keyed by its zone id.
RawDevice(id, manuel, nv, gv, fan, zone) ==
    [id_device |-> id, temperature_air |-> "500", consigne_confort |-> "680",
     consigne_hg |-> "446", consigne_boost |-> "770", consigne_eco |-> "626",
     consigne_manuel |-> manuel, nv_mode |-> nv, gv_mode |-> gv,
     fan_speed |-> fan, num_zone |-> zone, smarthome_id |-> HomeId]
RawZone(key, zone, label) == [key |-> key, num_zone |-> zone, zone_label |-> label]

\* Heater() and Room(): every attribute None (lines 448-499).
NewHeater ==
    [device_id |-> NoneT, current_temp |-> NoneT, consigne_confort |-> NoneT,
     consigne_hg |-> NoneT, consigne_boost |-> NoneT, consigne_eco |-> NoneT,
     consigne_manuel |-> NoneT, num_zone |-> NoneT, nv_mode |-> NoneT,
     gv_mode |-> NoneT, power_status |-> NoneT, smarthome_id |-> NoneT,
     fan_speed |-> NoneT, available |-> FALSE, room |-> NoneT, fan_status |-> NoneT]
NewRoom == [zone_id |-> NoneT, name |-> NoneT, num_zone |-> NoneT]

Get(dict, key, default) == IF key \in DOMAIN dict THEN dict[key] ELSE default
Put(dict, key, value) ==
    [k \in DOMAIN dict \cup {key} |-> IF k = key THEN value ELSE dict[k]]

\* Faulty variant of PowerStatus: the two mode fields are not looked at.
PowerStatusBySetpoint(d) == IF d.consigne_manuel = "0" THEN 0 ELSE 1

\* The derived power state (lines 409-410).
PowerStatus(d) ==
    IF d.consigne_manuel = "0" /\ d.nv_mode = "0" /\ d.gv_mode = "1" THEN 0 ELSE 1

\* The derived fan state (line 425).
FanStatus(d) == IF d.fan_speed # "0" THEN 1 ELSE 0

\* self.rooms.get(num_zone) (line 423): the Room object of that zone, held by
\* reference and so named here by its key, or None.
RoomOf(rms, zone) == IF zone \in DOMAIN rms THEN zone ELSE NoneT

\* set_heater_values (lines 389-425), for the attributes modelled.
set_heater_values(rms, d, heater) ==
    [heater EXCEPT
        !.current_temp     = adcToCelsius(ParseInt(d.temperature_air)),
        !.consigne_confort = adcToCelsius(ParseInt(d.consigne_confort)),
        !.consigne_hg      = adcToCelsius(ParseInt(d.consigne_hg)),
        !.consigne_boost   = adcToCelsius(ParseInt(d.consigne_boost)),
        !.consigne_eco     = adcToCelsius(ParseInt(d.consigne_eco)),
        !.consigne_manuel  = adcToCelsius(ParseInt(d.consigne_manuel)),
        !.num_zone         = d.num_zone,
        !.nv_mode          = d.nv_mode,
        !.gv_mode          = d.gv_mode,
        !.power_status     = PowerStatus(d),
        !.smarthome_id     = d.smarthome_id,
        !.fan_speed        = d.fan_speed,
        !.available        = FALSE,
        !.room             = RoomOf(rms, d.num_zone),
        !.fan_status       = FanStatus(d)]

\* Faulty variant of Available: every device of the list is marked available.
AvailableAlways(id, errors_data) == TRUE

\* if _id in errors_data (lines 232-235).
Available(id, errors_data) == id \notin errors_data

\* One turn of the loop of update_heaters (lines 228-237).
MergeHeater(hs, rms, d, errors_data) ==
    LET id == d.id_device
        h0 == [Get(hs, id, NewHeater) EXCEPT !.device_id = id]
        h1 == set_heater_values(rms, d, h0)
    IN  Put(hs, id, [h1 EXCEPT !.available = Available(id, errors_data)])

\* The loop of update_heaters over data.devices, in the order sent (line 227).
RECURSIVE MergeHeaters(_, _, _, _)
MergeHeaters(hs, rms, heater_data, errors_data) ==
    IF heater_data = <<>> THEN hs
    ELSE MergeHeaters(MergeHeater(hs, rms, Head(heater_data), errors_data),
                      rms, Tail(heater_data), errors_data)

\* Faulty variant of HeatersAfter: the registry is rebuilt from the list alone.
HeatersRebuilt(hs, rms, heater_data, errors_data) ==
    MergeHeaters(EmptyDict, rms, heater_data, errors_data)

\* self.heaters once the loop of lines 227-237 is through.
HeatersAfter(hs, rms, heater_data, errors_data) ==
    MergeHeaters(hs, rms, heater_data, errors_data)

\* One turn of the loop of update_rooms (lines 195-205).
MergeRoom(rms, z) ==
    Put(rms, z.num_zone,
        [Get(rms, z.num_zone, NewRoom) EXCEPT
            !.zone_id = z.key, !.name = z.zone_label, !.num_zone = z.num_zone])

\* The loop of update_rooms over data.zones (line 194).
RECURSIVE MergeRooms(_, _)
MergeRooms(rms, zone_data) ==
    IF zone_data = <<>> THEN rms
    ELSE MergeRooms(MergeRoom(rms, Head(zone_data)), Tail(zone_data))

\* ------------------------------------------------- the callers of request()
HomeForm(home) == << <<"smarthome_id", home>> >>

\* get_smarthome_list up to its await (lines 177-181).
EnterGetSmarthomeList(m) ==
    CallRequest(Push(m, Frame("get_smarthome_list", "request")),
                "user/read", <<>>, REQUEST_DEFAULT_RETRY)

\* update_rooms, update_heaters and find_all_heaters up to their first await
\* (lines 186-188, 213-214, 346-348).
EnterUpdateRooms(m) == EnterGetSmarthomeList(Push(m, Frame("update_rooms", "homes")))
EnterUpdateHeaters(m) ==
    EnterGetSmarthomeList(Push(m, HeatersFrame("homes", NoneT, <<>>)))
EnterFindAllHeaters(m) == EnterUpdateRooms(Push(m, Frame("find_all_heaters", "rooms")))

\* x.get(...) on what request() returned (lines 184, 193, 219, 225): only a
\* decoded body has get; None, False and a coroutine object raise.
HasGet(v) == v.t = "data"

\* request() has returned to get_smarthome_list (lines 182-184).
GetSmarthomeListReturn(m) ==
    IF m.ret = VNone THEN Return(m, VEmptyList)
    ELSE IF HasGet(m.ret) THEN Return(m, VHomes(m.ret.p.smarthome_id))
    ELSE Raise(m, "AttributeError")

\* The frame on top goes on at pc, with the value it was given consumed.
Goto(m, frame) == [m EXCEPT !.stack = Append(Pop(@), frame)]

\* get_smarthome_list has returned to update_rooms (lines 188-192): a list
\* has no get.
UpdateRoomsHomes(m) ==
    IF m.ret.t = "homes"
      THEN CallRequest(Goto(m, Frame("update_rooms", "zones")),
                       "/smarthome/read/", HomeForm(m.ret.smarthome_id),
                       REQUEST_DEFAULT_RETRY)
      ELSE Raise(m, "AttributeError")

\* request() has returned to update_rooms (lines 192-205).
UpdateRoomsZones(m) ==
    IF HasGet(m.ret)
      THEN Return([m EXCEPT !.rooms = MergeRooms(@, m.ret.p.zones)], VNone)
      ELSE Raise(m, "AttributeError")

\* get_smarthome_list has returned to update_heaters (lines 214-218).
UpdateHeatersHomes(m) ==
    IF m.ret.t = "homes"
      THEN CallRequest(Goto(m, HeatersFrame("devices", m.ret.smarthome_id, <<>>)),
                       "/smarthome/read/", HomeForm(m.ret.smarthome_id),
                       REQUEST_DEFAULT_RETRY)
      ELSE Raise(m, "AttributeError")

\* The device list has come back to update_heaters (lines 218-224).
UpdateHeatersDevices(m) ==
    LET home == Last(m.stack).smarthome_id
    IN  IF HasGet(m.ret)
          THEN CallRequest(Goto(m, HeatersFrame("errors", home, m.ret.p.devices)),
                           "/smarthome/get_errors/",
                           HomeForm(home) \o << <<"type_id", "1">> >>,
                           REQUEST_DEFAULT_RETRY)
          ELSE Raise(m, "AttributeError")

\* The error report has come back to update_heaters (lines 224-237).
UpdateHeatersErrors(m) ==
    IF HasGet(m.ret)
      THEN Return([m EXCEPT !.heaters = HeatersAfter(@, m.rooms,
                                                     Last(m.stack).heater_data,
                                                     m.ret.p.by_device)],
                  VNone)
      ELSE Raise(m, "AttributeError")

\* update_rooms has returned to find_all_heaters (lines 348-349).
FindAllHeatersRooms(m) == EnterUpdateHeaters(Goto(m, Frame("find_all_heaters", "heaters")))

\* update_heaters has returned to find_all_heaters (line 349).
FindAllHeatersHeaters(m) == Return(m, VNone)

\* ------------------------------------------------------------ the throttle
\* The last two calls of a throttled operation: when, and whether it fetched.
Noted(calls, at, fetched) ==
    LET c == Append(calls, [at |-> at, fetched |-> fetched])
    IN  IF Len(c) > 2 THEN Tail(c) ELSE c

\* The check of lines 326-327 and 334-336.
Throttled(stamp, t) == stamp # NoTime /\ t - stamp < MIN_TIME_BETWEEN_UPDATES

\* throttle_update_heaters up to its await (lines 324-330).
EnterThrottleUpdateHeaters(m) ==
    IF Throttled(m.throttle_time, now)
      THEN [m EXCEPT !.ret = VNone, !.thr.heaters = Noted(@, now, FALSE)]
      ELSE EnterUpdateHeaters(
             Push([m EXCEPT !.throttle_time = now, !.thr.heaters = Noted(@, now, TRUE)],
                  Frame("throttle_update_heaters", "update")))

\* Faulty variant of EnterThrottleUpdateAllHeaters: one stamp for both operations.
EnterThrottleUpdateAllShared(m) ==
    IF Throttled(m.throttle_time, now)
      THEN [m EXCEPT !.ret = VNone, !.thr.all = Noted(@, now, FALSE)]
      ELSE EnterFindAllHeaters(
             Push([m EXCEPT !.throttle_time = now, !.thr.all = Noted(@, now, TRUE)],
                  Frame("throttle_update_all_heaters", "find")))

\* throttle_update_all_heaters up to its await (lines 332-339).
EnterThrottleUpdateAllHeaters(m) ==
    IF Throttled(m.throttle_all_time, now)
      THEN [m EXCEPT !.ret = VNone, !.thr.all = Noted(@, now, FALSE)]
      ELSE EnterFindAllHeaters(
             Push([m EXCEPT !.throttle_all_time = now, !.thr.all = Noted(@, now, TRUE)],
                  Frame("throttle_update_all_heaters", "find")))

\* update_device up to its await (lines 341-343).
EnterUpdateDevice(m, device_id) ==
    EnterThrottleUpdateHeaters(Push(m, DeviceFrame(device_id)))

\* The fetch has returned to the throttled operation (lines 330 and 339).
ThrottleReturn(m) == Return(m, VNone)

\* throttle_update_heaters has returned to update_device (line 344).
UpdateDeviceReturn(m) ==
    LET id == Last(m.stack).device_id
    IN  Return(m, IF id \in DOMAIN m.heaters THEN VHeater(m.heaters[id]) ELSE VNone)

\* ------------------------------------------------------------ the controls
\* A Python int held in an attribute that otherwise holds a string of the
\* service: 1 is not '1'.
PyInt(n) ==
    CASE n = 0 -> "#0" [] n = 1 -> "#1" [] n = 2 -> "#2"
      [] n = 3 -> "#3" [] n = 4 -> "#4" [] n = 8 -> "#8"

\* The value of the last field of that name in a form.
Field(form, name) ==
    LET n == CHOOSE i \in 1..Len(form) :
                /\ form[i][1] = name
                /\ \A j \in (i + 1)..Len(form) : form[j][1] # name
    IN  form[n][2]
HasField(form, name) == \E i \in 1..Len(form) : form[i][1] = name

\* The fields every control form starts with (lines 246-248, 267-269, 365-367).
ControlForm(device_id) ==
    << <<"query[id_device]", device_id>>, <<"context", "1">> >>

\* The form of set_heater_temp (lines 246-256): the setpoint fields are added
\* only for a device of the registry.
TempForm(hs, device_id, set_temp) ==
    IF \E key \in DOMAIN hs : hs[key].device_id = device_id
      THEN LET key == CHOOSE k \in DOMAIN hs : hs[k].device_id = device_id
           IN  ControlForm(device_id)
               \o << <<"query[consigne_confort]", celsiusToAdc(set_temp)>>,
                     <<"query[consigne_manuel]", celsiusToAdc(set_temp)>>,
                     <<"smarthome_id", hs[key].smarthome_id>> >>
      ELSE ControlForm(device_id)

\* set_heater_temp up to its await (lines 245-258).
EnterSetHeaterTemp(m, device_id, set_temp) ==
    CallRequest(Push(m, Frame("set_heater_temp", "request")), "query/push/",
                TempForm(m.heaters, device_id, set_temp), REQUEST_DEFAULT_RETRY)

\* The preset table with every name in lower case.
PresetTable(preset) ==
    IF preset = "comfort" THEN 0
    ELSE IF preset = "program" THEN 8
    ELSE IF preset = "eco" THEN 3
    ELSE IF preset = "boost" THEN 4
    ELSE IF preset = "off" THEN 1
    ELSE 2

\* The mode code of a preset name (the if-chain of lines 271-309).
PresetCode(preset) ==
    IF preset = "comfort" THEN 0
    ELSE IF preset = "Program" THEN 8
    ELSE IF preset = "eco" THEN 3
    ELSE IF preset = "boost" THEN 4
    ELSE IF preset = "off" THEN 1
    ELSE 2

\* The fields a mode code adds after gv_mode and nv_mode (lines 275-315).
PresetFields(h, code) ==
    LET manuel == << <<"query[consigne_manuel]", celsiusToAdc(h.consigne_manuel)>> >>
    IN  CASE code = 0 ->
               << <<"query[consigne_confort]", celsiusToAdc(h.consigne_confort)>> >>
               \o manuel
          [] code = 8 -> manuel
          [] code = 3 ->
               << <<"query[consigne_eco]", celsiusToAdc(h.consigne_eco)>> >> \o manuel
          [] code = 4 ->
               << <<"query[time_boost]", 7200>>,
                  <<"query[consigne_boost]", celsiusToAdc(h.consigne_boost)>> >>
               \o manuel
          [] code = 1 -> << <<"query[consigne_manuel]", 0>> >>
          [] code = 2 ->
               manuel \o << <<"query[consigne_hg]", celsiusToAdc(h.consigne_hg)>> >>

\* The form of set_heater_preset for a heater h of the registry (lines 267-315).
PresetForm(h, device_id, preset) ==
    ControlForm(device_id)
    \o << <<"smarthome_id", h.smarthome_id>>,
          <<"query[gv_mode]", PresetCode(preset)>>,
          <<"query[nv_mode]", PresetCode(preset)>> >>
    \o PresetFields(h, PresetCode(preset))

\* Faulty variant of PresetHeater: the preset is not recorded locally.
PresetHeaterUntouched(h, preset) == h

\* The heater once the preset is recorded (lines 272, 281, 287, 295, 304, 309).
PresetHeater(h, preset) == [h EXCEPT !.gv_mode = PyInt(PresetCode(preset))]

\* set_heater_preset up to its await (lines 265-317): self.heaters[device_id]
\* raises KeyError for a device the registry does not hold.
EnterSetHeaterPreset(m, device_id, preset) ==
    IF device_id \notin DOMAIN m.heaters
      THEN Raise(m, "KeyError")
      ELSE CallRequest(
             Push([m EXCEPT !.heaters[device_id] = PresetHeater(@, preset)],
                  Frame("set_heater_preset", "request")),
             "query/push/", PresetForm(m.heaters[device_id], device_id, preset),
             REQUEST_DEFAULT_RETRY)

\* The form of heater_control (lines 365-375).
PowerForm(h, device_id, power_status) ==
    ControlForm(device_id)
    \o << <<"smarthome_id", h.smarthome_id>> >>
    \o IF power_status = 0
         THEN << <<"query[consigne_manuel]", 0>>, <<"query[gv_mode]", 1>>,
                 <<"query[nv_mode]", 1>> >>
         ELSE << <<"query[gv_mode]", 0>>, <<"query[nv_mode]", 0>> >>

\* heater_control up to its await (lines 351-377); power_status is None (-1
\* here) when the caller leaves it out.
EnterHeaterControl(m, device_id, power_status) ==
    IF device_id \notin DOMAIN m.heaters
      THEN [m EXCEPT !.ret = VNone]
      ELSE LET h == m.heaters[device_id]
               p == IF power_status = NoPower THEN h.power_status ELSE power_status
           IN  CallRequest(Push(m, Frame("heater_control", "request")),
                           "query/push/", PowerForm(h, device_id, p),
                           REQUEST_DEFAULT_RETRY)

\* request() has returned to a control operation, which drops the value
\* (lines 258, 317, 377).
ControlReturn(m) == Return(m, VNone)

\* ------------------------------------------------------------ the scheduler
\* The coroutine on top of the stack takes the value its callee returned.
Resume(m) ==
    LET f == Last(m.stack)
    IN  CASE f.fn = "request" -> RequestConnected(m)
          [] f.fn = "get_smarthome_list" -> GetSmarthomeListReturn(m)
          [] f.fn = "update_rooms" /\ f.pc = "homes" -> UpdateRoomsHomes(m)
          [] f.fn = "update_rooms" /\ f.pc = "zones" -> UpdateRoomsZones(m)
          [] f.fn = "update_heaters" /\ f.pc = "homes" -> UpdateHeatersHomes(m)
          [] f.fn = "update_heaters" /\ f.pc = "devices" -> UpdateHeatersDevices(m)
          [] f.fn = "update_heaters" /\ f.pc = "errors" -> UpdateHeatersErrors(m)
          [] f.fn = "find_all_heaters" /\ f.pc = "rooms" -> FindAllHeatersRooms(m)
          [] f.fn = "find_all_heaters" /\ f.pc = "heaters" -> FindAllHeatersHeaters(m)
          [] f.fn = "throttle_update_heaters" -> ThrottleReturn(m)
          [] f.fn = "throttle_update_all_heaters" -> ThrottleReturn(m)
          [] f.fn = "update_device" -> UpdateDeviceReturn(m)
          [] f.fn \in {"set_heater_temp", "set_heater_preset", "heater_control"} ->
               ControlReturn(m)

\* The client runs until a coroutine is suspended on a post, or until the
\* public call has returned: there is no other suspension point.
RECURSIVE Run(_)
Run(m) == IF m.stack = <<>> \/ m.ret = NoRet THEN m ELSE Run(Resume(m))

\* ---------------------------------------------------------------- history
CallRec(name, command, retry, device) ==
    [name |-> name, command |-> command, retry |-> retry, device |-> device]
NoCall == CallRec("none", "-", 0, "-")

PreNow == [token |-> token, user_id |-> user_id, token_expire |-> token_expire,
           expired |-> token # NoneT /\ TokenExpired(token_expire, now)]

\* Why the last public request() call ended as it did.
Cause ==
    IF call.name # "request" \/ ~Idle THEN "n/a"
    ELSE IF pre.token = NoneT THEN "no_token"
    ELSE IF rq.auths > 0 THEN "reauth"
    ELSE rq.last

PrevNow == [cause |-> Cause, ret |-> IF call.name = "request" THEN ret ELSE NoRet]

\* ------------------------------------------------------------------ steps
\* A public call c is made, and the client runs to its first post.
Called(c, m) ==
    /\ call' = c
    /\ pre' = PreNow
    /\ prev' = PrevNow
    /\ now' = now
    /\ codec' = codec
    /\ Becomes(Run(m))

Fresh == [Client EXCEPT !.ret = NoRet, !.rq = RqInit]

\* Public calls (lines 52, 119, 186, 213, 324, 332, 341, 346): the event loop
\* runs one to its end before the next (run_until_complete).
Connect(retry) ==
    /\ Idle
    /\ Called(CallRec("connect", "-", retry, "-"), EnterConnect(Fresh, retry))

Request(command, formData, retry) ==
    /\ Idle
    /\ Called(CallRec("request", command, retry, "-"),
              CallRequest(Fresh, command, formData, retry))

GetSmarthomeList ==
    /\ Idle
    /\ Called(CallRec("get_smarthome_list", "-", 0, "-"), EnterGetSmarthomeList(Fresh))

UpdateRooms ==
    /\ Idle
    /\ Called(CallRec("update_rooms", "-", 0, "-"), EnterUpdateRooms(Fresh))

UpdateHeaters ==
    /\ Idle
    /\ Called(CallRec("update_heaters", "-", 0, "-"), EnterUpdateHeaters(Fresh))

FindAllHeaters ==
    /\ Idle
    /\ Called(CallRec("find_all_heaters", "-", 0, "-"), EnterFindAllHeaters(Fresh))

ThrottleUpdateHeaters ==
    /\ Idle
    /\ Called(CallRec("throttle_update_heaters", "-", 0, "-"),
              EnterThrottleUpdateHeaters(Fresh))

ThrottleUpdateAllHeaters ==
    /\ Idle
    /\ Called(CallRec("throttle_update_all_heaters", "-", 0, "-"),
              EnterThrottleUpdateAllHeaters(Fresh))

UpdateDevice(device_id) ==
    /\ Idle
    /\ Called(CallRec("update_device", "-", 0, device_id),
              EnterUpdateDevice(Fresh, device_id))

\* The public call of a control operation on a device, with its argument.
ControlCall(name, device, arg) ==
    [name |-> name, command |-> "query/push/", retry |-> REQUEST_DEFAULT_RETRY,
     device |-> device, arg |-> arg]

\* Public calls of the control operations (lines 245, 265, 351).
SetHeaterTemp(device_id, set_temp) ==
    /\ Idle
    /\ Called(ControlCall("set_heater_temp", device_id, set_temp),
              EnterSetHeaterTemp(Fresh, device_id, set_temp))

SetHeaterPreset(device_id, preset) ==
    /\ Idle
    /\ Called(ControlCall("set_heater_preset", device_id, preset),
              EnterSetHeaterPreset(Fresh, device_id, preset))

HeaterControl(device_id, power_status) ==
    /\ Idle
    /\ Called(ControlCall("heater_control", device_id, power_status),
              EnterHeaterControl(Fresh, device_id, power_status))

\* The post a coroutine is suspended on is answered.
Awaiting(fn) == ~Idle /\ ret = NoRet /\ Top.fn = fn /\ Top.pc = "post"

ConnectResponse(r) ==
    /\ Awaiting("connect")
    /\ Becomes(Run(ConnectAnswered(Client, r)))
    /\ UNCHANGED <<now, call, pre, prev, codec>>

RequestResponse(r) ==
    /\ Awaiting("request")
    /\ Becomes(Run(RequestAnswered(Client, r)))
    /\ UNCHANGED <<now, call, pre, prev, codec>>

\* Time passes: between public calls, and while a post is awaited.
Tick ==
    /\ now < MaxTime
    /\ now' = now + 1
    /\ UNCHANGED <<session, rooms, heaters, throttle_time, throttle_all_time,
                   stack, ret, call, pre, rq, prev, thr, codec>>

\* No conversion has been applied on its own.
NoCodec == [fn |-> "none", arg |-> 0, out |-> 0]

\* The client after __init__ (lines 41-50).
Constructed ==
    /\ token = NoneT /\ user_id = NoneT /\ token_expire = NoExpire
    /\ now = 0
    /\ rooms = EmptyDict /\ heaters = EmptyDict
    /\ throttle_time = NoTime /\ throttle_all_time = NoTime
    /\ stack = <<>> /\ ret = NoRet
    /\ call = NoCall
    /\ pre = [token |-> NoneT, user_id |-> NoneT, token_expire |-> NoExpire,
              expired |-> FALSE]
    /\ rq = RqInit
    /\ prev = [cause |-> "n/a", ret |-> NoRet]
    /\ thr = [heaters |-> <<>>, all |-> <<>>]

Init == Constructed /\ codec = NoCodec

\* ------------------------------------------- the session and the executor
\* Public calls of connect and request against a service that may answer
\* anything, on a clock that runs.
Commands == {"query/push/"}
Forms == {<< <<"smarthome_id", "h1">> >>}

PlainAnswers ==
    {CmdAnswer(k, NoneT, NoPayload) : k \in {"timeout", "clienterror", "empty", "badjson"}}
    \cup {CmdAnswer("json", c, NoPayload) : c \in CmdCodes}

Next ==
    \/ \E n \in Retries : Connect(n)
    \/ \E r \in AuthAnswers : ConnectResponse(r)
    \/ \E c \in Commands, f \in Forms, n \in Retries : Request(c, f, n)
    \/ \E r \in PlainAnswers : RequestResponse(r)
    \/ Tick

Spec == Init /\ [][Next]_vars

\* Every post is made under the client's timeout (lines 65-69 and 140-146):
\* an awaited post always ends, in an answer, a TimeoutError or a ClientError.
Answered ==
    \/ \E r \in AuthAnswers : ConnectResponse(r)
    \/ \E r \in PlainAnswers : RequestResponse(r)
SpecLive == Spec /\ WF_vars(Answered)

\* --------------------------------------------------- the registry refreshes
\* What the service may answer to a command of the callers, its payload
\* limited to the member the caller reads.
Payloads(command, reader, zoneLists, deviceLists, errorSets) ==
    IF command = "user/read" THEN {[smarthome_id |-> HomeId]}
    ELSE IF command = "/smarthome/get_errors/" THEN {[by_device |-> e] : e \in errorSets}
    ELSE IF command = "/smarthome/read/" /\ reader = "update_rooms"
      THEN {[zones |-> z, devices |-> <<>>] : z \in zoneLists}
    ELSE IF command = "/smarthome/read/"
      THEN {[zones |-> <<>>, devices |-> d] : d \in deviceLists}
    ELSE {NoPayload}

Answers(kinds, codes, payloads) ==
    {CmdAnswer(k, NoneT, NoPayload) : k \in kinds}
    \cup {CmdAnswer("json", "1", p) : p \in payloads}
    \cup {CmdAnswer("json", c, NoPayload) : c \in codes}

Lists(S, n) == UNION {[1..k -> S] : k \in 0..n}

\* The coroutine that called the request() on top: the reader of its answer.
Reader == IF Len(stack) >= 2 THEN stack[Len(stack) - 1].fn ELSE "-"

\* The service hands out one long-lived token, or refuses.
OneTokenAnswers ==
    {AuthAnswer("timeout", NoneT, FALSE, NoneT, FALSE, NoneT, NoExpire),
     AuthAnswer("json", "3", FALSE, NoneT, FALSE, NoneT, NoExpire),
     AuthAnswer("json", "1", TRUE, "t1", TRUE, "u1", MaxTime + 1)}

\* Public calls of connect, get_smarthome_list, update_rooms, update_heaters
\* and find_all_heaters on a clock that stands still, against a service that
\* answers the commands with any lists of zones and devices, any error
\* report, an empty body or a refusal.  Each device is reported off with its
\* fan stopped, or on with its fan at speed 3; the first zone is reported
\* under one label or another.
RawDevices ==
    {RawDevice("d1", "0", "0", "1", "0", "1"), RawDevice("d1", "590", "0", "0", "3", "1"),
     RawDevice("d2", "0", "0", "1", "0", "2"), RawDevice("d2", "590", "0", "0", "3", "2")}
RawZones ==
    {RawZone("z1", "1", "room"), RawZone("z1", "1", "bath"), RawZone("z2", "2", "room")}

RegistryAnswers ==
    Answers({"empty"}, {"3"},
            Payloads(Top.command, Reader, Lists(RawZones, MaxList),
                     Lists(RawDevices, MaxList), SUBSET Devices))

RegistryRequestResponse ==
    /\ Awaiting("request")
    /\ \E r \in RegistryAnswers : RequestResponse(r)

NextRegistry ==
    \/ Connect(CONNECT_DEFAULT_RETRY)
    \/ \E r \in OneTokenAnswers : ConnectResponse(r)
    \/ RegistryRequestResponse
    \/ GetSmarthomeList
    \/ UpdateRooms
    \/ UpdateHeaters
    \/ FindAllHeaters

SpecRegistry == Init /\ [][NextRegistry]_vars

\* ------------------------------------------------------ the power state
\* Public calls of connect and update_heaters against a service that reports
\* one device, with every combination of manual setpoint, nv_mode and
\* gv_mode, in lists that may name it more than once.
PowerDevices ==
    {RawDevice("d1", cm, nv, gv, "0", "1") :
        cm \in {"0", "590"}, nv \in {"0", "1"}, gv \in {"0", "1"}}

PowerAnswers ==
    Answers({"empty"}, {"3"},
            Payloads(Top.command, Reader, {<<>>}, Lists(PowerDevices, MaxList),
                     {{}, {"d1"}}))

PowerRequestResponse ==
    /\ Awaiting("request")
    /\ \E r \in PowerAnswers : RequestResponse(r)

NextPower ==
    \/ Connect(CONNECT_DEFAULT_RETRY)
    \/ \E r \in OneTokenAnswers : ConnectResponse(r)
    \/ PowerRequestResponse
    \/ UpdateHeaters

SpecPower == Init /\ [][NextPower]_vars

\* ------------------------------------------------- the throttled refreshes
\* Public calls of connect, of the two throttled operations and of
\* update_device on a clock that runs, against a service that answers every
\* command with one zone, one device and an empty error report, or with an
\* empty body.
ThrottleAuthAnswers ==
    {AuthAnswer("json", "3", FALSE, NoneT, FALSE, NoneT, NoExpire),
     AuthAnswer("json", "1", TRUE, "t1", TRUE, "u1", MaxTime + 1)}

ThrottleAnswers ==
    Answers({"empty"}, {},
            Payloads(Top.command, Reader,
                     {<<RawZone("z1", "1", "room")>>},
                     {<<RawDevice("d1", "590", "0", "0", "3", "1")>>},
                     {{}}))

ThrottleRequestResponse ==
    /\ Awaiting("request")
    /\ \E r \in ThrottleAnswers : RequestResponse(r)

NextThrottle ==
    \/ Connect(CONNECT_DEFAULT_RETRY)
    \/ \E r \in ThrottleAuthAnswers : ConnectResponse(r)
    \/ ThrottleRequestResponse
    \/ ThrottleUpdateHeaters
    \/ ThrottleUpdateAllHeaters
    \/ \E d \in Devices : UpdateDevice(d)
    \/ Tick

SpecThrottle == Init /\ [][NextThrottle]_vars

\* ------------------------------------------------------------ the controls
\* Public calls of connect, update_heaters and the three control operations
\* on a clock that stands still.  The service reports one device, off or on;
\* the second device id is never in the registry.  A command is answered
\* with success, a refusal, an empty body or a timeout.
ControlDevices ==
    {RawDevice("d1", "0", "0", "1", "0", "1"), RawDevice("d1", "590", "0", "0", "3", "1")}
Presets == {"comfort", "Program", "program", "eco", "boost", "off", "away"}
Temps   == {5, 21}
Powers  == {NoPower, 0, 1}

ControlAnswers ==
    Answers({"timeout", "empty"}, {"3"},
            Payloads(Top.command, Reader, {<<>>},
                     {<<d>> : d \in ControlDevices}, {{}}))

ControlRequestResponse ==
    /\ Awaiting("request")
    /\ \E r \in ControlAnswers : RequestResponse(r)

NextControl ==
    \/ Connect(CONNECT_DEFAULT_RETRY)
    \/ \E r \in OneTokenAnswers : ConnectResponse(r)
    \/ ControlRequestResponse
    \/ UpdateHeaters
    \/ \E d \in Devices, t \in Temps : SetHeaterTemp(d, t)
    \/ \E d \in Devices, p \in Presets : SetHeaterPreset(d, p)
    \/ \E d \in Devices, p \in Powers : HeaterControl(d, p)

SpecControl == Init /\ [][NextControl]_vars

\* ------------------------------------------------------------ the codec
\* The two conversions applied to any integer of a range that holds the
\* setpoints in degrees and the device units of every degree up to 26.
CodecInputs == (0 - MaxCelsius)..MaxAdc

InitCodec ==
    /\ Constructed
    /\ codec \in {[fn |-> "none", arg |-> u, out |-> 0] : u \in CodecInputs}

CelsiusToAdc ==
    /\ codec.fn = "none"
    /\ codec' = [codec EXCEPT !.fn = "celsiusToAdc", !.out = celsiusToAdc(codec.arg)]
    /\ UNCHANGED <<session, now, rooms, heaters, throttle_time, throttle_all_time,
                   stack, ret, call, pre, rq, prev, thr>>

AdcToCelsius ==
    /\ codec.fn = "none"
    /\ codec' = [codec EXCEPT !.fn = "adcToCelsius", !.out = adcToCelsius(codec.arg)]
    /\ UNCHANGED <<session, now, rooms, heaters, throttle_time, throttle_all_time,
                   stack, ret, call, pre, rq, prev, thr>>

\* celsiusToAdc(adcToCelsius(u)).
RoundTrip ==
    /\ codec.fn = "adcToCelsius"
    /\ codec' = [codec EXCEPT !.fn = "roundtrip", !.out = celsiusToAdc(codec.out)]
    /\ UNCHANGED <<session, now, rooms, heaters, throttle_time, throttle_all_time,
                   stack, ret, call, pre, rq, prev, thr>>

NextCodec == CelsiusToAdc \/ AdcToCelsius \/ RoundTrip

SpecCodec == InitCodec /\ [][NextCodec]_vars

\* ------------------------------------------------------------------ claims
PublicRequest == call.name = "request"
PreSession == <<pre.token, pre.user_id, pre.token_expire>>

\* C1, as stated: a request(retry = N), N >= 1, made with a held, unexpired token whose
\* every command attempt timed out (and which never re-authenticated) has
\* returned failure after exactly N posts.
C1_ExactlyRetryAttempts ==
    (Idle /\ PublicRequest /\ pre.token # NoneT /\ ~pre.expired /\ call.retry >= 1
          /\ rq.auths = 0 /\ rq.attempts >= 1 /\ rq.timeouts = rq.attempts)
    => (ret = VNone /\ rq.attempts = call.retry)

\* C1, amended: a request(retry = N) never makes more than N + 1 command
\* posts, and one made with a held token that stays unexpired, whose every
\* attempt timed out, has returned failure (None) after exactly N + 1 posts:
\* the first attempt and N retries.
C1_RetryBudget ==
    /\ PublicRequest => rq.attempts <= call.retry + 1
    /\ (Idle /\ PublicRequest /\ pre.token # NoneT /\ ~pre.expired
             /\ rq.auths = 0 /\ rq.attempts >= 1 /\ rq.timeouts = rq.attempts)
       => (ret = VNone /\ rq.attempts = call.retry + 1)

C1_Witness ==
    /\ Idle /\ PublicRequest /\ call.retry = 2 /\ ~pre.expired
    /\ rq.auths = 0 /\ rq.timeouts = 3 /\ rq.attempts = 3 /\ ret = VNone

C3_ReissuedAfterReauth ==
    (Idle /\ PublicRequest /\ pre.expired /\ ret.t # "raise")
    => /\ rq.auths >= 1
       /\ rq.auth # "ok" => (ret = VNone /\ rq.attempts = 0)
       /\ rq.auth = "ok" => (rq.attempts = 1 /\ ret.t \in {"data", "None", "False"})

\* C4: a public request() made while no token is held returns None in the
\* same step, with no post of either kind, and leaves the session and the
\* registries as they were.
C4_NoTokenFailsFast ==
    [][ ((\E c \in Commands, f \in Forms, n \in Retries : Request(c, f, n))
           /\ token = NoneT)
        => (/\ stack' = <<>> /\ ret' = VNone
            /\ rq'.attempts = 0 /\ rq'.auths = 0
            /\ UNCHANGED <<token, user_id, token_expire, rooms, heaters>>) ]_vars

C4_Witness ==
    Idle /\ PublicRequest /\ pre.token = NoneT /\ ret = VNone /\ rq.attempts = 0

\* C5: a public connect() whose last answer was malformed, lacked the token,
\* the user id or the expiry, or carried the auth-failure code, has returned
\* False and left the session as it was before the call.
FailedAuthAnswers ==
    {"badjson", "nocode", "nodata", "noinfos", "notoken", "nouser", "noexpiry", "authfail"}

C5_FailedAuthReturnsFalse ==
    (Idle /\ call.name = "connect" /\ rq.auth \in FailedAuthAnswers)
    => (ret = VFalse /\ session = PreSession)

\* C7: the value request() returns for an empty body differs from the value
\* the previous request() returned for a missing token, an exhausted retry
\* budget, a connection error or a reported error code.
FailureCauses == {"no_token", "timeout", "clienterror", "rejected"}

C7_NoDataDistinctFromFailure ==
    (Cause = "empty" /\ prev.cause \in FailureCauses) => ret # prev.ret

\* The error report is about to come back to an update_heaters that holds
\* the device list it fetched.
Merging ==
    /\ Len(stack) >= 2 /\ ret = NoRet
    /\ Top.fn = "request" /\ Top.pc = "post"
    /\ stack[Len(stack) - 1].fn = "update_heaters"
    /\ stack[Len(stack) - 1].pc = "errors"
FetchedDevices == stack[Len(stack) - 1].heater_data
FetchedIds == {FetchedDevices[i].id_device : i \in 1..Len(FetchedDevices)}
\* The record of the list that is merged last for a device id.
LastRecord(id) ==
    LET n == CHOOSE i \in 1..Len(FetchedDevices) :
                /\ FetchedDevices[i].id_device = id
                /\ \A j \in (i + 1)..Len(FetchedDevices) : FetchedDevices[j].id_device # id
    IN  FetchedDevices[n]
ErrorReport(e) == CmdAnswer("json", "1", [by_device |-> e])
\* update_heaters completes on the error report e.
Merged(e) == Merging /\ RequestResponse(ErrorReport(e))

\* The zone list is about to come back to update_rooms.
MergingRooms ==
    /\ Len(stack) >= 2 /\ ret = NoRet
    /\ Top.fn = "request" /\ Top.pc = "post"
    /\ stack[Len(stack) - 1].fn = "update_rooms"
    /\ stack[Len(stack) - 1].pc = "zones"
ZoneReport(z) == CmdAnswer("json", "1", [zones |-> z, devices |-> <<>>])
ZoneNums(z) == {z[i].num_zone : i \in 1..Len(z)}

Refreshed == Idle /\ call.name = "update_heaters" /\ ret = VNone

\* C6: of two consecutive calls of one throttled operation, whatever calls
\* of the other came between them: the first call ever made fetches; a call
\* made 2 s or more after the one before it fetches; a call made less than
\* 2 s after one that fetched does not fetch, so that the two result in
\* exactly one fetch.
ThrottleGuard(calls) ==
    /\ Len(calls) = 1 => calls[1].fetched
    /\ Len(calls) = 2 =>
         /\ calls[2].at - calls[1].at >= MIN_TIME_BETWEEN_UPDATES => calls[2].fetched
         /\ (calls[2].at - calls[1].at < MIN_TIME_BETWEEN_UPDATES /\ calls[1].fetched)
              => ~calls[2].fetched

C8_PowerStatusAtReconciliation ==
    [][ \A e \in SUBSET Devices :
          Merged(e) =>
            \A id \in FetchedIds :
              LET d == LastRecord(id)
              IN  heaters'[id].power_status =
                    IF d.consigne_manuel = "0" /\ d.nv_mode = "0" /\ d.gv_mode = "1"
                      THEN 0 ELSE 1 ]_vars

\* A refresh has left the heater on although its manual setpoint is "0" and
\* its gv_mode "1" (its nv_mode is not "0").
C8_Witness ==
    /\ Refreshed /\ "d1" \in DOMAIN heaters
    /\ heaters["d1"].power_status = 1 /\ heaters["d1"].consigne_manuel = 0
    /\ heaters["d1"].nv_mode = "1" /\ heaters["d1"].gv_mode = "1"

\* C9: when update_heaters completes, the heater of every device id of the
\* fetched list is available iff the id is absent from the error report of
\* that refresh, and has fan_status 0 iff the fan_speed reported is "0".
C9_AvailableAndFanStatus ==
    [][ \A e \in SUBSET Devices :
          Merged(e) =>
            \A id \in FetchedIds :
              /\ heaters'[id].available = (id \notin e)
              /\ (heaters'[id].fan_status = 0) = (LastRecord(id).fan_speed = "0")
              /\ heaters'[id].fan_status \in {0, 1} ]_vars

\* A refresh has left a heater with fan_speed "3" unavailable and with
\* fan_status 1, and another available with its fan stopped.
C9_Witness ==
    /\ Refreshed /\ DOMAIN heaters = Devices
    /\ heaters["d1"].fan_speed = "3" /\ heaters["d1"].fan_status = 1
    /\ ~heaters["d1"].available
    /\ heaters["d2"].fan_speed = "0" /\ heaters["d2"].fan_status = 0
    /\ heaters["d2"].available

\* C10: no step removes a key of heaters or of rooms; a step changes a
\* heater only when update_heaters completes on a device list that holds its
\* id, and a room only when update_rooms completes on a zone list that holds
\* its zone number.
C10_EntriesNeverRemoved ==
    [][ /\ \A id \in DOMAIN heaters :
             /\ id \in DOMAIN heaters'
             /\ heaters'[id] # heaters[id] => (Merging /\ id \in FetchedIds)
        /\ \A k \in DOMAIN rooms :
             /\ k \in DOMAIN rooms'
             /\ rooms'[k] # rooms[k] =>
                  /\ MergingRooms
                  /\ \E z \in Lists(RawZones, MaxList) :
                        RequestResponse(ZoneReport(z)) /\ k \in ZoneNums(z) ]_vars

\* A refresh has completed that did not list the first heater: it is still
\* there, without the room that a refresh listing it would have given it;
\* and the first room has been relabelled, the second being kept.
C10_Witness ==
    /\ Refreshed /\ DOMAIN heaters = Devices /\ DOMAIN rooms = {"1", "2"}
    /\ heaters["d1"].room = NoneT /\ heaters["d2"].room = "2"
    /\ rooms["1"].name = "bath" /\ rooms["2"].name = "room"

\* The form of the command post that is awaited.
Submitted == Top.formData

\* C11: the request that set_heater_preset submits for a known device has
\* gv_mode and nv_mode both equal to the code of the preset's row: comfort 0,
\* program 8, eco 3, boost 4 (with time_boost 7200), off 1 (with manual
\* setpoint 0), and 2 for any other name.
C11_PresetTable ==
    (Awaiting("request") /\ call.name = "set_heater_preset" /\ call.arg # "Program")
    => /\ Field(Submitted, "query[gv_mode]") = PresetTable(call.arg)
       /\ Field(Submitted, "query[nv_mode]") = PresetTable(call.arg)
       /\ call.arg = "boost" => Field(Submitted, "query[time_boost]") = 7200
       /\ call.arg = "off" => Field(Submitted, "query[consigne_manuel]") = 0

\* C12: a set_heater_temp for a device id that the registry does not hold
\* is over at once: it returns None, no command post is made, nothing is
\* raised and the registries are as they were.
C12_UnknownDeviceSilent ==
    [][ (\E d \in Devices, t \in Temps :
            SetHeaterTemp(d, t) /\ d \notin DOMAIN heaters)
        => (/\ stack' = <<>> /\ ret' = VNone /\ rq'.attempts = 0
            /\ UNCHANGED <<rooms, heaters>>) ]_vars

Abs(x) == IF x < 0 THEN 0 - x ELSE x

\* C13: celsiusToAdc(c) is 410 + (c - 5) * 18; adcToCelsius(u) is u for
\* u < 410 and otherwise the integer nearest to (u - 410) / 18 + 5, that is,
\* an integer r with |18 (r - 5) - (u - 410)| <= 9.
C13_CodecReference ==
    /\ codec.fn = "celsiusToAdc" => codec.out = 410 + (codec.arg - 5) * 18
    /\ (codec.fn = "adcToCelsius" /\ codec.arg < 410) => codec.out = codec.arg
    /\ (codec.fn = "adcToCelsius" /\ codec.arg >= 410)
         => Abs(18 * (codec.out - 5) - (codec.arg - 410)) <= 9

\* C14: for u >= 410, celsiusToAdc(adcToCelsius(u)) differs from u by at
\* most 9 device units; for u < 410, adcToCelsius(u) is u.
C14_CodecRoundTrip ==
    /\ (codec.fn = "roundtrip" /\ codec.arg >= 410) => Abs(codec.out - codec.arg) <= 9
    /\ (codec.fn = "adcToCelsius" /\ codec.arg < 410) => codec.out = codec.arg

\* A step in which the request() made for get_smarthome_list, update_rooms
\* or update_heaters returns a failure or no data: no token is held when the
\* operation is called, or its post is answered with an empty body or with
\* an error code.
Fetchers == {"get_smarthome_list", "update_rooms", "update_heaters"}
RequestFails ==
    \/ (GetSmarthomeList \/ UpdateRooms \/ UpdateHeaters) /\ token = NoneT
    \/ /\ Awaiting("request") /\ call.name \in Fetchers
       /\ \/ RequestResponse(CmdAnswer("empty", NoneT, NoPayload))
          \/ RequestResponse(CmdAnswer("json", "3", NoPayload))

\* C15: such a step ends the operation with a value (nothing is raised) and
\* leaves rooms and heaters as they were; get_smarthome_list returns [] when
\* the request returned no data.
C15_FailuresAsValues ==
    [][ RequestFails
        => (/\ stack' = <<>> /\ ret'.t # "raise"
            /\ UNCHANGED <<rooms, heaters>>
            /\ (call'.name = "get_smarthome_list" /\ rq'.last # "rejected")
                 => ret' = VEmptyList) ]_vars

\* C16: a request() whose command post failed with a connection-level error
\* reports failure only once its budget is exhausted: when it has returned,
\* the command has been sent as often as the budget allows.
C16_TransportErrorRetried ==
    (Idle /\ PublicRequest /\ rq.last = "clienterror" /\ rq.auths = 0)
    => rq.attempts = call.retry + 1

\* The posts one call may make: a connect(retry) at most retry + 1
\* authentication posts and no command post; a request(retry) at most
\* retry + 1 command posts, and the authentication posts of the connect() of
\* line 129, made with the default budget.
AttemptsBounded ==
    /\ call.name = "connect"
         => (rq.auths <= call.retry + 1 /\ rq.attempts = 0)
    /\ call.name = "request"
         => (rq.attempts <= call.retry + 1 /\ rq.auths <= CONNECT_DEFAULT_RETRY + 1)

\* An answered post is followed by another post of the same call.
Retried == ~Idle /\ stack' # <<>> /\ stack' # stack

\* The call that is retried is entered with a smaller budget: the outermost
\* one, or the connect() it awaits.
BudgetDecreased ==
    \/ stack'[1].retry < stack[1].retry
    \/ /\ Len(stack) = 2 /\ Len(stack') = 2 /\ stack'[1] = stack[1]
       /\ stack'[2].retry < stack[2].retry

\* C17: whatever the service answers, a connect() or request() makes a number
\* of posts bounded by its budget, each retry is entered with a strictly
\* smaller budget than the call that made it, and every call terminates.
C17_BoundedRetries ==
    /\ []AttemptsBounded
    /\ [][Retried => BudgetDecreased]_vars
    /\ (~Idle ~> Idle)

\* A request(2) that used its whole budget on timeouts, found its token
\* expired on the last retry and used the whole budget of connect() as well.
C17_Witness ==
    /\ Idle /\ PublicRequest /\ call.retry = 2
    /\ rq.attempts = 2 /\ rq.timeouts = 2 /\ rq.auths = CONNECT_DEFAULT_RETRY + 1
    /\ ret = VNone

\* A set_heater_preset call on a device the registry holds is made.
PresetCalled ==
    \E d \in Devices, p \in Presets : SetHeaterPreset(d, p) /\ d \in DOMAIN heaters

\* C18: set_heater_preset on a known device has recorded the preset's mode
\* code in the heater's gv_mode, and changed nothing else in the registry,
\* by the time its request is in flight; and the registry changes in no
\* other step than such a call and the completion of an update_heaters, so
\* the recorded code outlives every outcome of the request.
C18_OptimisticPreset ==
    [][ /\ PresetCalled
          => /\ heaters' = [heaters EXCEPT ![call'.device] =
                              [@ EXCEPT !.gv_mode = PyInt(PresetCode(call'.arg))]]
             /\ token # NoneT => Awaiting("request")'
        /\ heaters' # heaters => (PresetCalled \/ Merging) ]_vars

\* A preset whose request the service refused: the code is still recorded.
C18_Witness ==
    /\ Idle /\ call.name = "set_heater_preset" /\ call.arg = "eco"
    /\ rq.last = "rejected" /\ ret = VNone
    /\ heaters[call.device].gv_mode = PyInt(3)

\* The power state the attributes of a heater stand for: a gv_mode of 1 is
\* the string the service sends or the integer set_heater_preset stores.
DerivedPower(h) ==
    IF h.consigne_manuel = 0 /\ h.nv_mode = "0" /\ h.gv_mode \in {"1", PyInt(1)}
      THEN 0 ELSE 1

\* C19: every heater of the registry has power_status 0 iff its manual
\* setpoint is 0, its nv_mode 0 and its gv_mode 1, and power_status 1
\* otherwise.
C19_PowerStatusDerived ==
    \A id \in DOMAIN heaters : heaters[id].power_status = DerivedPower(heaters[id])

\* The session fields are all unset, or all set.
SessionTogether ==
    \/ token = NoneT /\ user_id = NoneT /\ token_expire = NoExpire
    \/ token # NoneT /\ user_id # NoneT /\ token_expire # NoExpire

\* An authentication post is answered by a body connect() accepts.
ConnectSucceeds ==
    \E r \in AuthAnswers : ConnectResponse(r) /\ AuthName(r) = "ok"

\* C20: token, user_id and token_expire are all unset or all set; they change
\* only in a connect() that succeeds, which sets all three; a token once set
\* is never cleared; and so no request() that passes its no-token check
\* fails to parse the expiry.
C20_SessionSetTogether ==
    /\ [](SessionTogether /\ ret # VRaise("TypeError"))
    /\ [][ /\ session' # session => ConnectSucceeds
           /\ token # NoneT => token' # NoneT ]_vars

\* A session is held, and a later connect() whose answer lacks the user id
\* has returned False: the session is the one held before.
C20_Witness ==
    /\ Idle /\ call.name = "connect" /\ rq.auth = "nouser" /\ ret = VFalse
    /\ token # NoneT /\ session = PreSession

\* How many fields of a form bear a name.
Count(form, name) == Cardinality({i \in 1..Len(form) : form[i][1] = name})

\* C21: every command post of request(), the first and each one re-sent after
\* a timeout, carries the token field exactly once and the email field
\* exactly once, and the token carried is the token the session holds.
C21_CredentialsOnce ==
    Awaiting("request")
    => /\ Count(Submitted, "token") = 1
       /\ Count(Submitted, "email") = 1
       /\ \A i \in 1..Len(Submitted) :
            Submitted[i][1] = "token" => Submitted[i][2] = token

=============================================================================
